---- MODULE Spec2Model ----
\* Model of the simulateTransaction JSON-RPC handler of soroban-rpc
\* (cmd/soroban-rpc/internal/methods/simulate_transaction.go).
\*
\* One simulation is one invocation of the closure returned by
\* NewSimulateTransactionHandler.  Its position is pc[p]; its Go locals are
\* the variables txEnvelope, op, sourceAccount, footprint, readTx,
\* latestLedger, bucketListSize and result.  The collaborators
\* (LedgerEntryReader, LedgerReader, PreflightGetter) are interfaces: their
\* outcomes are drawn nondeterministically from small sets.
EXTENDS Integers, Sequences, FiniteSets, TLC

\* ---------------------------------------------------------------- bounds
MaxOps == 2        \* longest operation list of a request envelope
MaxLedger == 2     \* highest ledger sequence the store ingests

\* ---------------------------------------------------------------- values
\* A nil pointer / absent optional of the Go code.
Nil == [nil |-> TRUE]

\* A Go error value and err.Error(), its message.
NewError(msg) == [msg |-> msg]
Error(err) == err.msg

\* The simulations (handler invocations that may be in progress).
Sims == {1}

\* xdr.EnvelopeType values a decoded envelope can have.
EnvelopeTypeEnvelopeTypeTxV0 == "ENVELOPE_TYPE_TX_V0"
EnvelopeTypeEnvelopeTypeTx == "ENVELOPE_TYPE_TX"
EnvelopeTypeEnvelopeTypeTxFeeBump == "ENVELOPE_TYPE_TX_FEE_BUMP"

\* xdr.OperationType values used by the requests.
OperationTypePayment == "PAYMENT"
OperationTypeInvokeHostFunction == "INVOKE_HOST_FUNCTION"
OperationTypeBumpFootprintExpiration == "BUMP_FOOTPRINT_EXPIRATION"
OperationTypeRestoreFootprint == "RESTORE_FOOTPRINT"

OperationTypes ==
  { OperationTypePayment, OperationTypeInvokeHostFunction,
    OperationTypeBumpFootprintExpiration, OperationTypeRestoreFootprint }

\* op.Body.Type.String(): the name of the enum value in the Go xdr package.
OperationTypeString(t) ==
  CASE t = OperationTypePayment -> "OperationTypePayment"
    [] t = OperationTypeInvokeHostFunction -> "OperationTypeInvokeHostFunction"
    [] t = OperationTypeBumpFootprintExpiration -> "OperationTypeBumpFootprintExpiration"
    [] t = OperationTypeRestoreFootprint -> "OperationTypeRestoreFootprint"

\* xdr.LedgerFootprint{}: the zero footprint.
EmptyFootprint == [ReadOnly |-> <<>>, ReadWrite |-> <<>>]

\* Footprints an envelope's SorobanTransactionData may declare.
InlineFootprints ==
  { [ReadOnly |-> <<"keyA">>, ReadWrite |-> <<>>],
    [ReadOnly |-> <<"keyA">>, ReadWrite |-> <<"keyB">>] }

\* MuxedAccount.ToAccountId(): drops the multiplexing id.
ToAccountId(muxed) == muxed.Ed25519

EnvelopeSource == [Ed25519 |-> "GENV", Id |-> 7]
OperationSource == [Ed25519 |-> "GOP", Id |-> 0]

\* xdr.Operation: an optional source account and a body tagged by its type.
Operations ==
  { [SourceAccount |-> s, Body |-> [Type |-> t]] :
      s \in {Nil, OperationSource}, t \in OperationTypes }

\* Operation lists of length 0..MaxOps.  The handler looks at the length of
\* the list and at its first operation only, so in the longer lists no
\* operation carries its own source account and the operations after the
\* first are payments.
OperationLists ==
  { <<>> } \cup { <<o>> : o \in Operations } \cup
  UNION { { ops \in [1..n -> {o \in Operations : o.SourceAccount = Nil}] :
              \A i \in 2..n : ops[i].Body.Type = OperationTypePayment } :
          n \in 2..MaxOps }

\* xdr.TransactionExt: V = 0 without data, V = 1 with SorobanTransactionData.
TransactionExts ==
  { [V |-> 0, SorobanData |-> Nil] } \cup
  { [V |-> 1, SorobanData |-> [Resources |-> [Footprint |-> f]]] :
      f \in InlineFootprints }

TransactionV1Envelopes(exts) ==
  { [Tx |-> [SourceAccount |-> EnvelopeSource, Operations |-> ops, Ext |-> e]] :
      ops \in OperationLists, e \in exts }

\* xdr.TransactionEnvelope: a union; exactly the arm named by Type is set.
Envelopes ==
  { [Type |-> EnvelopeTypeEnvelopeTypeTxV0,
     V0 |-> [Tx |-> [SourceAccountEd25519 |-> EnvelopeSource.Ed25519,
                     Operations |-> ops]],
     V1 |-> Nil, FeeBump |-> Nil] : ops \in OperationLists } \cup
  { [Type |-> EnvelopeTypeEnvelopeTypeTx, V0 |-> Nil, V1 |-> v1, FeeBump |-> Nil] :
      v1 \in TransactionV1Envelopes(TransactionExts) } \cup
  { [Type |-> EnvelopeTypeEnvelopeTypeTxFeeBump, V0 |-> Nil, V1 |-> Nil,
     FeeBump |-> [Tx |-> [InnerTx |-> [V1 |-> v1]]]] :
      v1 \in TransactionV1Envelopes(
               {e \in TransactionExts :
                  e.V = 1 => e.SorobanData.Resources.Footprint.ReadWrite = <<>>}) }

\* The base64 XDR text of an envelope, and text that is no envelope at all.
MarshalBase64(env) == <<"base64-xdr", env>>
Garbage == <<"not-an-envelope">>

\* SimulateTransactionRequest values a client may send.
Requests ==
  { [Transaction |-> MarshalBase64(env)] : env \in Envelopes } \cup
  { [Transaction |-> Garbage] }

\* xdr.SafeUnmarshalBase64: the envelope, or an error.
SafeUnmarshalBase64(text) ==
  IF Len(text) = 2 /\ text[1] = "base64-xdr"
    THEN [err |-> Nil, value |-> text[2]]
    ELSE [err |-> NewError("xdr: decoding failed"), value |-> Nil]

\* TransactionEnvelope.Operations()
EnvelopeOperations(env) ==
  CASE env.Type = EnvelopeTypeEnvelopeTypeTxFeeBump ->
         env.FeeBump.Tx.InnerTx.V1.Tx.Operations
    [] env.Type = EnvelopeTypeEnvelopeTypeTx -> env.V1.Tx.Operations
    [] env.Type = EnvelopeTypeEnvelopeTypeTxV0 -> env.V0.Tx.Operations

\* TransactionEnvelope.SourceAccount()
EnvelopeSourceAccount(env) ==
  CASE env.Type = EnvelopeTypeEnvelopeTypeTxFeeBump ->
         env.FeeBump.Tx.InnerTx.V1.Tx.SourceAccount
    [] env.Type = EnvelopeTypeEnvelopeTypeTx -> env.V1.Tx.SourceAccount
    [] env.Type = EnvelopeTypeEnvelopeTypeTxV0 ->
         [Ed25519 |-> env.V0.Tx.SourceAccountEd25519, Id |-> 0]

\* ------------------------------------------------------------ responses
SimulateTransactionCost(cpu, mem) ==
  [CPUInstructions |-> cpu, MemoryBytes |-> mem]

\* SimulateTransactionResponse{}: every field at its zero value.
ZeroResponse ==
  [Error |-> "", TransactionData |-> "", Events |-> <<>>, MinResourceFee |-> 0,
   Results |-> <<>>, Cost |-> SimulateTransactionCost(0, 0), LatestLedger |-> 0]

\* SimulateTransactionResponse{Error: msg}
ErrorResponse(msg) == [ZeroResponse EXCEPT !.Error = msg]

ErrUnmarshal == "Could not unmarshal transaction"
ErrOperationCount == "Transaction contains more than one operation"
ErrMissingSorobanData ==
  "To perform a SimulateTransaction for BumpFootprintExpiration or RestoreFootprint operations, SorobanTransactionData must be provided"
ErrUnsupportedPrefix == "Transaction contains unsupported operation type: "
ErrReadTx == "Cannot create read transaction"

\* -------------------------------------------------------- collaborators
\* xdr.LedgerCloseMeta records the store may hold: only V = 2 carries V2.
BucketListSizes == {100, 200}

CloseMetas ==
  { [V |-> 1, V2 |-> Nil] } \cup
  { [V |-> 2, V2 |-> [TotalByteSizeOfBucketList |-> s]] : s \in BucketListSizes }

\* Errors the collaborators report (error values with their messages).
ReadTxErrors == {NewError("DB is empty")}
LedgerReaderErrors == {NewError("ledger reader: backend unavailable")}
PreflightErrors == {NewError("HostError: contract trapped")}

\* preflight.Preflight{}: the zero trace.
ZeroPreflight ==
  [Events |-> <<>>, TransactionData |-> "", MinFee |-> 0, Result |-> "",
   Auth |-> <<>>, CPUInstructions |-> 0, MemoryBytes |-> 0]

\* Traces a successful preflight may return.
PreflightTraces ==
  { [Events |-> <<>>, TransactionData |-> "txdata-1", MinFee |-> 115,
     Result |-> "scval-5", Auth |-> <<>>,
     CPUInstructions |-> 3000, MemoryBytes |-> 512],
    [Events |-> <<"event-1", "event-2">>, TransactionData |-> "txdata-2",
     MinFee |-> 230, Result |-> "scval-void", Auth |-> <<"auth-1", "auth-2">>,
     CPUInstructions |-> 9000, MemoryBytes |-> 2048] }

\* What GetPreflight may return: a trace and no error, or an error together
\* with whatever the implementation left in the Preflight value (nothing, or
\* the diagnostic events captured before the failure).
PreflightOutcomes ==
  { [result |-> t, err |-> Nil] : t \in PreflightTraces } \cup
  { [result |-> r, err |-> e] :
      r \in { ZeroPreflight,
              [ZeroPreflight EXCEPT !.Events = <<"event-1">>] },
      e \in PreflightErrors }

\* ----------------------------------------------------------------- state
VARIABLES
  dbLatest,        \* ledger store: latest ingested ledger sequence (0: empty)
  dbMeta,          \* ledger store: sequence -> close meta, Nil when missing
  openTx,          \* read transactions opened by NewCachedTx and not yet Done
  pc,              \* position of each simulation in the handler
  request,         \* the SimulateTransactionRequest being served
  ctxDone,         \* whether the invocation's context has been cancelled
  maxReported,     \* highest latestLedger among the responses to earlier requests
  txEnvelope,      \* Go local txEnvelope
  op,              \* Go local op
  sourceAccount,   \* Go local sourceAccount
  footprint,       \* Go local footprint
  readTx,          \* Go local readTx
  latestLedger,    \* Go local latestLedger
  bucketListSize,  \* Go local bucketListSize
  result,          \* what GetPreflight returned (result, err)
  response,        \* the value the handler returns
  calls            \* collaborator calls made by the simulation, in order

store == <<dbLatest, dbMeta>>
parsed == <<txEnvelope, op, sourceAccount, footprint>>
pinned == <<readTx, latestLedger, bucketListSize, result>>
vars == <<dbLatest, dbMeta, openTx, pc, request, ctxDone, maxReported, txEnvelope, op, sourceAccount,
          footprint, readTx, latestLedger, bucketListSize, result, response,
          calls>>

Init ==
  /\ dbLatest = 0
  /\ dbMeta = <<>>
  /\ openTx = {}
  /\ pc = [p \in Sims |-> "idle"]
  /\ request = [p \in Sims |-> Nil]
  /\ ctxDone = [p \in Sims |-> FALSE]
  /\ maxReported = 0
  /\ txEnvelope = [p \in Sims |-> Nil]
  /\ op = [p \in Sims |-> Nil]
  /\ sourceAccount = [p \in Sims |-> Nil]
  /\ footprint = [p \in Sims |-> Nil]
  /\ readTx = [p \in Sims |-> Nil]
  /\ latestLedger = [p \in Sims |-> 0]
  /\ bucketListSize = [p \in Sims |-> 0]
  /\ result = [p \in Sims |-> Nil]
  /\ response = [p \in Sims |-> Nil]
  /\ calls = [p \in Sims |-> <<>>]

\* The ledger store ingests the next ledger; its close meta may be of any
\* version, or missing from the store.
Ingest ==
  /\ dbLatest < MaxLedger
  /\ \E m \in CloseMetas \cup {Nil} :
       /\ dbLatest' = dbLatest + 1
       /\ dbMeta' = Append(dbMeta, m)
  /\ UNCHANGED <<openTx, pc, request, ctxDone, maxReported,
                 parsed, pinned, response, calls>>

\* The transport hands a request to the handler: a new invocation starts
\* with fresh locals.
Receive(p) ==
  /\ pc[p] \in {"idle", "returned", "panicked"}
  /\ \E req \in Requests : request' = [request EXCEPT ![p] = req]
  /\ ctxDone' = [ctxDone EXCEPT ![p] = FALSE]
  /\ maxReported' =
       IF pc[p] = "returned" /\ response[p].LatestLedger > maxReported
         THEN response[p].LatestLedger
         ELSE maxReported
  /\ pc' = [pc EXCEPT ![p] = "unmarshal"]
  /\ txEnvelope' = [txEnvelope EXCEPT ![p] = Nil]
  /\ op' = [op EXCEPT ![p] = Nil]
  /\ sourceAccount' = [sourceAccount EXCEPT ![p] = Nil]
  /\ footprint' = [footprint EXCEPT ![p] = Nil]
  /\ readTx' = [readTx EXCEPT ![p] = Nil]
  /\ latestLedger' = [latestLedger EXCEPT ![p] = 0]
  /\ bucketListSize' = [bucketListSize EXCEPT ![p] = 0]
  /\ result' = [result EXCEPT ![p] = Nil]
  /\ response' = [response EXCEPT ![p] = Nil]
  /\ calls' = [calls EXCEPT ![p] = <<>>]
  /\ UNCHANGED <<store, openTx>>

\* The caller cancels the context of a running invocation.  The validation
\* steps never look at the context, so a cancellation during them shows
\* like one at NewCachedTx; the deferred Done() takes no context.
Cancel(p) ==
  /\ pc[p] \in {"newTx", "latestLedger", "bucketListSize", "preflight"}
  /\ ~ctxDone[p]
  /\ ctxDone' = [ctxDone EXCEPT ![p] = TRUE]
  /\ UNCHANGED <<store, openTx, pc, request, maxReported, parsed, pinned,
                 response, calls>>

\* The error a collaborator that honours the context reports once the
\* context is cancelled; a collaborator may also carry on regardless.
ContextErrors(done) ==
  IF done THEN {NewError("context canceled")} ELSE {}

\* return resp, before the deferred readTx.Done() was registered.
ReturnEarly(p, resp) ==
  /\ response' = [response EXCEPT ![p] = resp]
  /\ pc' = [pc EXCEPT ![p] = "returned"]

\* Variant: the release is not deferred, so a return skips it.
ReturnWithoutDone(p, resp) ==
  /\ response' = [response EXCEPT ![p] = resp]
  /\ pc' = [pc EXCEPT ![p] = "returned"]

\* return resp, with the deferred readTx.Done() still to run.
ReturnDeferred(p, resp) ==
  /\ response' = [response EXCEPT ![p] = resp]
  /\ pc' = [pc EXCEPT ![p] = "deferred"]

\* A record of one collaborator call, kept in calls[p].
\* tx: the read transaction involved (Nil if none); args: the other
\* arguments; ret: what the call returned.
Call(name, tx, args, ret) ==
  [call |-> name, tx |-> tx, args |-> args, ret |-> ret]

\* The read transaction NewCachedTx hands out: a fresh handle pinned to the
\* store's latest ledger at the time it is opened.
FreshTx ==
  [id |-> CHOOSE i \in 1..(Cardinality(openTx) + 1) :
            \A t \in openTx : t.id # i,
   latest |-> dbLatest]

\* Lines 49-56: decode the envelope.
Unmarshal(p) ==
  /\ pc[p] = "unmarshal"
  /\ LET r == SafeUnmarshalBase64(request[p].Transaction) IN
       IF r.err # Nil
         THEN /\ ReturnEarly(p, ErrorResponse(ErrUnmarshal))
              /\ UNCHANGED txEnvelope
         ELSE /\ txEnvelope' = [txEnvelope EXCEPT ![p] = r.value]
              /\ pc' = [pc EXCEPT ![p] = "operations"]
              /\ UNCHANGED response
  /\ UNCHANGED <<store, openTx, request, ctxDone, maxReported,
                 op, sourceAccount, footprint, pinned,
                 calls>>

\* Variant: the operation count is checked only after the read transaction
\* has been opened.
CheckOperationsAfterNewCachedTx(p) ==
  /\ pc[p] = "operations"
  /\ LET ops == EnvelopeOperations(txEnvelope[p]) IN
       IF Len(ops) # 1
         THEN /\ ReturnDeferred(p, ErrorResponse(ErrOperationCount))
              /\ openTx' = openTx \cup {FreshTx}
              /\ readTx' = [readTx EXCEPT ![p] = FreshTx]
              /\ calls' = [calls EXCEPT ![p] =
                             Append(@, Call("NewCachedTx", FreshTx,
                                            [ctxDone |-> ctxDone[p]],
                                            [err |-> Nil]))]
              /\ UNCHANGED <<op, sourceAccount>>
         ELSE /\ op' = [op EXCEPT ![p] = ops[1]]
              /\ sourceAccount' =
                   [sourceAccount EXCEPT ![p] =
                      IF ops[1].SourceAccount # Nil
                        THEN ToAccountId(ops[1].SourceAccount)
                        ELSE ToAccountId(EnvelopeSourceAccount(txEnvelope[p]))]
              /\ pc' = [pc EXCEPT ![p] = "footprint"]
              /\ UNCHANGED <<response, openTx, readTx, calls>>
  /\ UNCHANGED <<store, request, ctxDone, maxReported,
                 txEnvelope, footprint, latestLedger,
                 bucketListSize, result>>

\* Variant: only an empty operation list is rejected.
CheckOperationsOnlyEmpty(p) ==
  /\ pc[p] = "operations"
  /\ LET ops == EnvelopeOperations(txEnvelope[p]) IN
       IF Len(ops) = 0
         THEN /\ ReturnEarly(p, ErrorResponse(ErrOperationCount))
              /\ UNCHANGED <<op, sourceAccount>>
         ELSE /\ op' = [op EXCEPT ![p] = ops[1]]
              /\ sourceAccount' =
                   [sourceAccount EXCEPT ![p] =
                      IF ops[1].SourceAccount # Nil
                        THEN ToAccountId(ops[1].SourceAccount)
                        ELSE ToAccountId(EnvelopeSourceAccount(txEnvelope[p]))]
              /\ pc' = [pc EXCEPT ![p] = "footprint"]
              /\ UNCHANGED response
  /\ UNCHANGED <<store, openTx, request, ctxDone, maxReported,
                 txEnvelope, footprint, pinned, calls>>

\* Lines 57-69: exactly one operation; pick it and its source account.
CheckOperations(p) ==
  /\ pc[p] = "operations"
  /\ LET ops == EnvelopeOperations(txEnvelope[p]) IN
       IF Len(ops) # 1
         THEN /\ ReturnEarly(p, ErrorResponse(ErrOperationCount))
              /\ UNCHANGED <<op, sourceAccount>>
         ELSE /\ op' = [op EXCEPT ![p] = ops[1]]
              /\ sourceAccount' =
                   [sourceAccount EXCEPT ![p] =
                      IF ops[1].SourceAccount # Nil
                        THEN ToAccountId(ops[1].SourceAccount)
                        ELSE ToAccountId(EnvelopeSourceAccount(txEnvelope[p]))]
              /\ pc' = [pc EXCEPT ![p] = "footprint"]
              /\ UNCHANGED response
  /\ UNCHANGED <<store, openTx, request, ctxDone, maxReported,
                 txEnvelope, footprint, pinned, calls>>

\* The outcome of evaluating a Go expression: a value, or a nil-pointer
\* dereference (a run-time panic).
Value(v) == [panic |-> FALSE, value |-> v]
Panic == [panic |-> TRUE, value |-> Nil]

\* Line 75: txEnvelope.Type != EnvelopeTypeTx && txEnvelope.V1.Tx.Ext.V != 1,
\* evaluated left to right with short circuit; V1 is a pointer.
MissingSorobanData(env) ==
  IF env.Type # EnvelopeTypeEnvelopeTypeTx
    THEN IF env.V1 = Nil THEN Panic ELSE Value(env.V1.Tx.Ext.V # 1)
    ELSE Value(FALSE)

\* Line 80: txEnvelope.V1.Tx.Ext.SorobanData.Resources.Footprint; V1 and
\* SorobanData are pointers.
SorobanDataFootprint(env) ==
  IF env.V1 = Nil THEN Panic
  ELSE IF env.V1.Tx.Ext.SorobanData = Nil THEN Panic
  ELSE Value(env.V1.Tx.Ext.SorobanData.Resources.Footprint)

\* Variant: RestoreFootprint is missing from the accepted operation types.
ResolveFootprintWithoutRestore(p) ==
  /\ pc[p] = "footprint"
  /\ LET env == txEnvelope[p]
         type == op[p].Body.Type
     IN
       CASE type = OperationTypeInvokeHostFunction ->
              /\ footprint' = [footprint EXCEPT ![p] = EmptyFootprint]
              /\ pc' = [pc EXCEPT ![p] = "newTx"]
              /\ UNCHANGED response
         [] type \in { OperationTypeBumpFootprintExpiration } ->
              IF MissingSorobanData(env).panic
                THEN /\ pc' = [pc EXCEPT ![p] = "panicked"]
                     /\ UNCHANGED <<footprint, response>>
              ELSE IF MissingSorobanData(env).value
                THEN /\ ReturnEarly(p, ErrorResponse(ErrMissingSorobanData))
                     /\ UNCHANGED footprint
              ELSE IF SorobanDataFootprint(env).panic
                THEN /\ pc' = [pc EXCEPT ![p] = "panicked"]
                     /\ UNCHANGED <<footprint, response>>
              ELSE /\ footprint' =
                        [footprint EXCEPT ![p] = SorobanDataFootprint(env).value]
                   /\ pc' = [pc EXCEPT ![p] = "newTx"]
                   /\ UNCHANGED response
         [] OTHER ->
              /\ ReturnEarly(p, ErrorResponse(ErrUnsupportedPrefix \o
                                              OperationTypeString(type)))
              /\ UNCHANGED footprint
  /\ UNCHANGED <<store, openTx, request, ctxDone, maxReported,
                 txEnvelope, op, sourceAccount, pinned,
                 calls>>

\* Variant: an InvokeHostFunction envelope that declares a footprint has it
\* handed on instead of the empty one.
ResolveFootprintInlineForInvoke(p) ==
  /\ pc[p] = "footprint"
  /\ LET env == txEnvelope[p]
         type == op[p].Body.Type
     IN
       CASE type = OperationTypeInvokeHostFunction ->
              /\ footprint' =
                   [footprint EXCEPT ![p] =
                      IF SorobanDataFootprint(env).panic
                        THEN EmptyFootprint
                        ELSE SorobanDataFootprint(env).value]
              /\ pc' = [pc EXCEPT ![p] = "newTx"]
              /\ UNCHANGED response
         [] type \in { OperationTypeBumpFootprintExpiration,
                       OperationTypeRestoreFootprint } ->
              IF MissingSorobanData(env).panic
                THEN /\ pc' = [pc EXCEPT ![p] = "panicked"]
                     /\ UNCHANGED <<footprint, response>>
              ELSE IF MissingSorobanData(env).value
                THEN /\ ReturnEarly(p, ErrorResponse(ErrMissingSorobanData))
                     /\ UNCHANGED footprint
              ELSE IF SorobanDataFootprint(env).panic
                THEN /\ pc' = [pc EXCEPT ![p] = "panicked"]
                     /\ UNCHANGED <<footprint, response>>
              ELSE /\ footprint' =
                        [footprint EXCEPT ![p] = SorobanDataFootprint(env).value]
                   /\ pc' = [pc EXCEPT ![p] = "newTx"]
                   /\ UNCHANGED response
         [] OTHER ->
              /\ ReturnEarly(p, ErrorResponse(ErrUnsupportedPrefix \o
                                              OperationTypeString(type)))
              /\ UNCHANGED footprint
  /\ UNCHANGED <<store, openTx, request, ctxDone, maxReported,
                 txEnvelope, op, sourceAccount, pinned,
                 calls>>

\* Lines 71-85: the footprint handed to the preflight, by operation type.
ResolveFootprint(p) ==
  /\ pc[p] = "footprint"
  /\ LET env == txEnvelope[p]
         type == op[p].Body.Type
     IN
       CASE type = OperationTypeInvokeHostFunction ->
              /\ footprint' = [footprint EXCEPT ![p] = EmptyFootprint]
              /\ pc' = [pc EXCEPT ![p] = "newTx"]
              /\ UNCHANGED response
         [] type \in { OperationTypeBumpFootprintExpiration,
                       OperationTypeRestoreFootprint } ->
              IF MissingSorobanData(env).panic
                THEN /\ pc' = [pc EXCEPT ![p] = "panicked"]
                     /\ UNCHANGED <<footprint, response>>
              ELSE IF MissingSorobanData(env).value
                THEN /\ ReturnEarly(p, ErrorResponse(ErrMissingSorobanData))
                     /\ UNCHANGED footprint
              ELSE IF SorobanDataFootprint(env).panic
                THEN /\ pc' = [pc EXCEPT ![p] = "panicked"]
                     /\ UNCHANGED <<footprint, response>>
              ELSE /\ footprint' =
                        [footprint EXCEPT ![p] = SorobanDataFootprint(env).value]
                   /\ pc' = [pc EXCEPT ![p] = "newTx"]
                   /\ UNCHANGED response
         [] OTHER ->
              /\ ReturnEarly(p, ErrorResponse(ErrUnsupportedPrefix \o
                                              OperationTypeString(type)))
              /\ UNCHANGED footprint
  /\ UNCHANGED <<store, openTx, request, ctxDone, maxReported,
                 txEnvelope, op, sourceAccount, pinned,
                 calls>>

\* Variant: the release is deferred before the error of NewCachedTx is
\* looked at.
NewCachedTxDeferBeforeCheck(p) ==
  /\ pc[p] = "newTx"
  /\ \/ /\ ReturnDeferred(p, ErrorResponse(ErrReadTx))
        /\ calls' = [calls EXCEPT ![p] = Append(@, Call("NewCachedTx", Nil,
                                          [ctxDone |-> ctxDone[p]],
                                          [err |-> NewError("begin failed")]))]
        /\ UNCHANGED <<openTx, readTx>>
     \/ /\ openTx' = openTx \cup {FreshTx}
        /\ readTx' = [readTx EXCEPT ![p] = FreshTx]
        /\ calls' = [calls EXCEPT ![p] = Append(@, Call("NewCachedTx", FreshTx,
                                          [ctxDone |-> ctxDone[p]],
                                          [err |-> Nil]))]
        /\ pc' = [pc EXCEPT ![p] = "latestLedger"]
        /\ UNCHANGED response
  /\ UNCHANGED <<store, request, ctxDone, maxReported,
                 parsed, latestLedger, bucketListSize, result>>

\* Lines 87-95: open the read transaction and defer its release.
NewCachedTx(p) ==
  /\ pc[p] = "newTx"
  /\ \/ /\ ReturnEarly(p, ErrorResponse(ErrReadTx))
        /\ calls' = [calls EXCEPT ![p] = Append(@, Call("NewCachedTx", Nil,
                                          [ctxDone |-> ctxDone[p]],
                                          [err |-> NewError("begin failed")]))]
        /\ UNCHANGED <<openTx, readTx>>
     \/ /\ openTx' = openTx \cup {FreshTx}
        /\ readTx' = [readTx EXCEPT ![p] = FreshTx]
        /\ calls' = [calls EXCEPT ![p] = Append(@, Call("NewCachedTx", FreshTx,
                                          [ctxDone |-> ctxDone[p]],
                                          [err |-> Nil]))]
        /\ pc' = [pc EXCEPT ![p] = "latestLedger"]
        /\ UNCHANGED response
  /\ UNCHANGED <<store, request, ctxDone, maxReported,
                 parsed, latestLedger, bucketListSize, result>>

\* What readTx.GetLatestLedgerSequence() may return: the sequence the read
\* transaction is pinned to, or an error (always an error on an empty store).
LatestLedgerSequenceOutcomes(tx) ==
  { [seq |-> 0, err |-> e] : e \in ReadTxErrors } \cup
  { [seq |-> tx.latest, err |-> Nil] : x \in IF tx.latest > 0 THEN {1} ELSE {} }

\* Lines 96-101.
GetLatestLedgerSequence(p) ==
  /\ pc[p] = "latestLedger"
  /\ \E out \in LatestLedgerSequenceOutcomes(readTx[p]) :
       /\ calls' = [calls EXCEPT ![p] =
                      Append(@, Call("GetLatestLedgerSequence", readTx[p], Nil,
                                     out))]
       /\ latestLedger' = [latestLedger EXCEPT ![p] = out.seq]
       /\ IF out.err # Nil
            THEN ReturnDeferred(p, ErrorResponse(Error(out.err)))
            ELSE /\ pc' = [pc EXCEPT ![p] = "bucketListSize"]
                 /\ UNCHANGED response
  /\ UNCHANGED <<store, openTx, request, ctxDone, maxReported,
                 parsed, readTx, bucketListSize, result>>

\* What ledgerReader.GetLedger(ctx, seq) may return: (closeMeta, ok, err).
GetLedgerOutcomes(seq) ==
  { [closeMeta |-> Nil, ok |-> FALSE, err |-> e] : e \in LedgerReaderErrors } \cup
  { IF seq \in DOMAIN dbMeta /\ dbMeta[seq] # Nil
      THEN [closeMeta |-> dbMeta[seq], ok |-> TRUE, err |-> Nil]
      ELSE [closeMeta |-> Nil, ok |-> FALSE, err |-> Nil] }

\* Variant: the version error is formatted with its arguments swapped.
getBucketListSizeSwappedArgs(out, latest) ==
  IF out.err # Nil THEN [size |-> 0, err |-> out.err]
  ELSE IF ~out.ok
    THEN [size |-> 0,
          err |-> NewError("missing meta for latest ledger (" \o
                           ToString(latest) \o ")")]
  ELSE IF out.closeMeta.V # 2
    THEN [size |-> 0,
          err |-> NewError("latest ledger (" \o ToString(out.closeMeta.V) \o
                           ") meta has unexpected verion (" \o
                           ToString(latest) \o ")")]
  ELSE [size |-> out.closeMeta.V2.TotalByteSizeOfBucketList, err |-> Nil]

\* Variant: a missing close meta is not reported; the size stays zero.
getBucketListSizeIgnoringMissing(out, latest) ==
  IF out.err # Nil THEN [size |-> 0, err |-> out.err]
  ELSE IF ~out.ok THEN [size |-> 0, err |-> Nil]
  ELSE IF out.closeMeta.V # 2
    THEN [size |-> 0,
          err |-> NewError("latest ledger (" \o ToString(latest) \o
                           ") meta has unexpected verion (" \o
                           ToString(out.closeMeta.V) \o ")")]
  ELSE [size |-> out.closeMeta.V2.TotalByteSizeOfBucketList, err |-> Nil]

\* Lines 136-149: the bucket-list size of the latest ledger's close meta.
getBucketListSize(out, latest) ==
  IF out.err # Nil THEN [size |-> 0, err |-> out.err]
  ELSE IF ~out.ok
    THEN [size |-> 0,
          err |-> NewError("missing meta for latest ledger (" \o
                           ToString(latest) \o ")")]
  ELSE IF out.closeMeta.V # 2
    THEN [size |-> 0,
          err |-> NewError("latest ledger (" \o ToString(latest) \o
                           ") meta has unexpected verion (" \o
                           ToString(out.closeMeta.V) \o ")")]
  ELSE [size |-> out.closeMeta.V2.TotalByteSizeOfBucketList, err |-> Nil]

\* Lines 102-107.
GetBucketListSize(p) ==
  /\ pc[p] = "bucketListSize"
  /\ \E out \in GetLedgerOutcomes(latestLedger[p]) \cup
                 { [closeMeta |-> Nil, ok |-> FALSE, err |-> e] :
                     e \in ContextErrors(ctxDone[p]) } :
       LET r == getBucketListSize(out, latestLedger[p]) IN
         /\ calls' = [calls EXCEPT ![p] =
                        Append(@, Call("GetLedger", Nil,
                                       [ctxDone |-> ctxDone[p],
                                        seq |-> latestLedger[p]], out))]
         /\ bucketListSize' = [bucketListSize EXCEPT ![p] = r.size]
         /\ IF r.err # Nil
              THEN ReturnDeferred(p, ErrorResponse(Error(r.err)))
              ELSE /\ pc' = [pc EXCEPT ![p] = "preflight"]
                   /\ UNCHANGED response
  /\ UNCHANGED <<store, openTx, request, ctxDone, maxReported,
                 parsed, readTx, latestLedger, result>>

\* Variant: the failure response is built from the returned trace as well.
PreflightErrorResponseWithTrace(out, latest) ==
  [Error |-> Error(out.err),
   Results |-> << [XDR |-> out.result.Result, Auth |-> out.result.Auth] >>,
   Events |-> out.result.Events,
   TransactionData |-> out.result.TransactionData,
   MinResourceFee |-> out.result.MinFee,
   Cost |-> SimulateTransactionCost(out.result.CPUInstructions,
                                    out.result.MemoryBytes),
   LatestLedger |-> latest]

\* Variant: the failure response carries the error only.
PreflightErrorResponseWithoutLedger(out, latest) ==
  [ZeroResponse EXCEPT !.Error = Error(out.err)]

\* Lines 111-114: the response to a failed preflight.
PreflightErrorResponse(out, latest) ==
  [ZeroResponse EXCEPT !.Error = Error(out.err), !.LatestLedger = latest]

\* Variant: the two cost counters are assigned crosswise.
PreflightResponseSwappedCost(out, latest) ==
  [Error |-> "",
   Results |-> << [XDR |-> out.result.Result, Auth |-> out.result.Auth] >>,
   Events |-> out.result.Events,
   TransactionData |-> out.result.TransactionData,
   MinResourceFee |-> out.result.MinFee,
   Cost |-> SimulateTransactionCost(out.result.MemoryBytes,
                                    out.result.CPUInstructions),
   LatestLedger |-> latest]

\* Lines 117-132: the response to a successful preflight.
PreflightResponse(out, latest) ==
  [Error |-> "",
   Results |-> << [XDR |-> out.result.Result, Auth |-> out.result.Auth] >>,
   Events |-> out.result.Events,
   TransactionData |-> out.result.TransactionData,
   MinResourceFee |-> out.result.MinFee,
   Cost |-> SimulateTransactionCost(out.result.CPUInstructions,
                                    out.result.MemoryBytes),
   LatestLedger |-> latest]

\* Variant: the responses report the store's latest ledger at the time the
\* preflight returns instead of the sequence read from the read transaction.
GetPreflightReportingStoreLatest(p) ==
  /\ pc[p] = "preflight"
  /\ \E out \in PreflightOutcomes \cup
                 { [result |-> ZeroPreflight, err |-> e] :
                     e \in ContextErrors(ctxDone[p]) } :
       /\ calls' = [calls EXCEPT ![p] =
                      Append(@, Call("GetPreflight", readTx[p],
                                     [ctxDone |-> ctxDone[p],
                                      bucketListSize |-> bucketListSize[p],
                                      sourceAccount |-> sourceAccount[p],
                                      opBody |-> op[p].Body,
                                      footprint |-> footprint[p]], out))]
       /\ result' = [result EXCEPT ![p] = out]
       /\ IF out.err # Nil
            THEN ReturnDeferred(p, PreflightErrorResponse(out, dbLatest))
            ELSE ReturnDeferred(p, PreflightResponse(out, dbLatest))
  /\ UNCHANGED <<store, openTx, request, ctxDone, maxReported,
                 parsed, readTx, latestLedger,
                 bucketListSize>>

\* Lines 109-132: run the preflight and build the response.
GetPreflight(p) ==
  /\ pc[p] = "preflight"
  /\ \E out \in PreflightOutcomes \cup
                 { [result |-> ZeroPreflight, err |-> e] :
                     e \in ContextErrors(ctxDone[p]) } :
       /\ calls' = [calls EXCEPT ![p] =
                      Append(@, Call("GetPreflight", readTx[p],
                                     [ctxDone |-> ctxDone[p],
                                      bucketListSize |-> bucketListSize[p],
                                      sourceAccount |-> sourceAccount[p],
                                      opBody |-> op[p].Body,
                                      footprint |-> footprint[p]], out))]
       /\ result' = [result EXCEPT ![p] = out]
       /\ IF out.err # Nil
            THEN ReturnDeferred(p, PreflightErrorResponse(out, latestLedger[p]))
            ELSE ReturnDeferred(p, PreflightResponse(out, latestLedger[p]))
  /\ UNCHANGED <<store, openTx, request, ctxDone, maxReported,
                 parsed, readTx, latestLedger,
                 bucketListSize>>

\* Variant: the release closes the oldest open read transaction, whoever
\* opened it.
DoneOldest(p) ==
  /\ pc[p] = "deferred"
  /\ LET t == CHOOSE t \in openTx : \A u \in openTx : t.id <= u.id IN
       /\ openTx' = openTx \ {t}
       /\ calls' = [calls EXCEPT ![p] = Append(@, Call("Done", t, Nil, Nil))]
  /\ pc' = [pc EXCEPT ![p] = "returned"]
  /\ UNCHANGED <<store, request, ctxDone, maxReported,
                 parsed, pinned, response>>

\* Lines 93-95: the deferred readTx.Done() runs, then the handler returns.
Done(p) ==
  /\ pc[p] = "deferred"
  /\ openTx' = openTx \ {readTx[p]}
  /\ calls' = [calls EXCEPT ![p] = Append(@, Call("Done", readTx[p], Nil, Nil))]
  /\ pc' = [pc EXCEPT ![p] = "returned"]
  /\ UNCHANGED <<store, request, ctxDone, maxReported,
                 parsed, pinned, response>>

Next ==
  \/ Ingest
  \/ \E p \in DOMAIN pc : Receive(p)
  \/ \E p \in DOMAIN pc : Cancel(p)
  \/ \E p \in DOMAIN pc : Unmarshal(p)
  \/ \E p \in DOMAIN pc : CheckOperations(p)
  \/ \E p \in DOMAIN pc : ResolveFootprint(p)
  \/ \E p \in DOMAIN pc : NewCachedTx(p)
  \/ \E p \in DOMAIN pc : GetLatestLedgerSequence(p)
  \/ \E p \in DOMAIN pc : GetBucketListSize(p)
  \/ \E p \in DOMAIN pc : GetPreflight(p)
  \/ \E p \in DOMAIN pc : Done(p)

Spec == Init /\ [][Next]_vars

\* ------------------------------------------------ concurrent simulations
\* The jrpc2.Handler returned by NewSimulateTransactionHandler is one
\* closure that the server may invoke for several requests at once: each
\* invocation has its own locals, all share ledgerEntryReader, ledgerReader
\* and getter.
ConcurrentSims == {1, 2}

\* The requests of the concurrent specification: a simulation that runs
\* through to the preflight and one that is rejected before it opens a
\* read transaction.
ConcurrentRequests ==
  { [Transaction |-> MarshalBase64(
       [Type |-> EnvelopeTypeEnvelopeTypeTx, V0 |-> Nil, FeeBump |-> Nil,
        V1 |-> [Tx |-> [SourceAccount |-> EnvelopeSource,
                        Operations |->
                          << [SourceAccount |-> Nil,
                              Body |-> [Type |-> t]] >>,
                        Ext |-> [V |-> 0, SorobanData |-> Nil]]]])] :
      t \in {OperationTypeInvokeHostFunction, OperationTypePayment} }

InitConc ==
  /\ dbLatest = 0
  /\ dbMeta = <<>>
  /\ openTx = {}
  /\ pc = [p \in ConcurrentSims |-> "idle"]
  /\ request = [p \in ConcurrentSims |-> Nil]
  /\ ctxDone = [p \in ConcurrentSims |-> FALSE]
  /\ maxReported = 0
  /\ txEnvelope = [p \in ConcurrentSims |-> Nil]
  /\ op = [p \in ConcurrentSims |-> Nil]
  /\ sourceAccount = [p \in ConcurrentSims |-> Nil]
  /\ footprint = [p \in ConcurrentSims |-> Nil]
  /\ readTx = [p \in ConcurrentSims |-> Nil]
  /\ latestLedger = [p \in ConcurrentSims |-> 0]
  /\ bucketListSize = [p \in ConcurrentSims |-> 0]
  /\ result = [p \in ConcurrentSims |-> Nil]
  /\ response = [p \in ConcurrentSims |-> Nil]
  /\ calls = [p \in ConcurrentSims |-> <<>>]

\* A request arrives while other invocations may be in progress; each
\* invocation serves one request.
ReceiveConcurrent(p) ==
  /\ pc[p] = "idle"
  /\ Receive(p)
  /\ request'[p] \in ConcurrentRequests

\* The handler never looks at its context, so the interleavings are
\* explored with live contexts only.
NextConc ==
  \/ Ingest
  \/ \E p \in DOMAIN pc : ReceiveConcurrent(p)
  \/ \E p \in DOMAIN pc : Unmarshal(p)
  \/ \E p \in DOMAIN pc : CheckOperations(p)
  \/ \E p \in DOMAIN pc : ResolveFootprint(p)
  \/ \E p \in DOMAIN pc : NewCachedTx(p)
  \/ \E p \in DOMAIN pc : GetLatestLedgerSequence(p)
  \/ \E p \in DOMAIN pc : GetBucketListSize(p)
  \/ \E p \in DOMAIN pc : GetPreflight(p)
  \/ \E p \in DOMAIN pc : Done(p)

SpecConc == InitConc /\ [][NextConc]_vars

\* =============================================================== claims
\* The simulation has left the handler, by return or by panic.
Finished(p) == pc[p] \in {"returned", "panicked"}

\* The collaborator calls of simulation p with the given name.
CallsOf(p, name) == { i \in DOMAIN calls[p] : calls[p][i].call = name }

\* C1: every simulation whose NewCachedTx succeeded has released its read
\* transaction with Done by the time the handler has returned, whatever the
\* exit path; no finished simulation leaves a snapshot open.
C1_SnapshotReleased ==
  \A p \in DOMAIN pc :
    (Finished(p) /\ readTx[p] # Nil) =>
      /\ readTx[p] \notin openTx
      /\ \E i \in CallsOf(p, "Done") : calls[p][i].tx = readTx[p]

\* C1 witness: a simulation that opened a snapshot, ran the preflight
\* successfully, and has returned.
C1_Witness ==
  \E p \in DOMAIN pc :
    /\ pc[p] = "returned"
    /\ readTx[p] # Nil
    /\ response[p].Error = ""
    /\ CallsOf(p, "Done") # {}

\* C2: a returned response has a non-empty error and none of results,
\* transactionData, minResourceFee, cost; or an empty error and all of them,
\* taken from the trace GetPreflight returned.
C2_ErrorOrResult ==
  \A p \in DOMAIN pc :
    pc[p] = "returned" =>
      LET r == response[p] IN
        /\ r.Error # "" =>
             /\ r.Results = <<>>
             /\ r.TransactionData = ""
             /\ r.MinResourceFee = 0
             /\ r.Cost = [CPUInstructions |-> 0, MemoryBytes |-> 0]
        /\ r.Error = "" =>
             /\ result[p] # Nil
             /\ result[p].err = Nil
             /\ r.Results = << [XDR |-> result[p].result.Result,
                                Auth |-> result[p].result.Auth] >>
             /\ r.TransactionData = result[p].result.TransactionData
             /\ r.MinResourceFee = result[p].result.MinFee
             /\ r.Cost = [CPUInstructions |-> result[p].result.CPUInstructions,
                          MemoryBytes |-> result[p].result.MemoryBytes]

\* C2 witness: a returned failure response of a preflight that returned an
\* error together with a non-zero Preflight value.
C2_Witness ==
  \E p \in DOMAIN pc :
    /\ pc[p] = "returned"
    /\ result[p] # Nil
    /\ result[p].err # Nil
    /\ result[p].result # ZeroPreflight
    /\ response[p].Error # ""

\* C3 (as claimed): no request makes the handler abort; every invocation
\* that ends, ends by returning a response.
C3_NeverAborts ==
  \A p \in DOMAIN pc : pc[p] # "panicked"

\* The simulation is past the footprint switch of lines 71-85.
PastFootprint(p) ==
  pc[p] \notin {"idle", "unmarshal", "operations", "footprint"}

FootprintOperationTypes ==
  { OperationTypeBumpFootprintExpiration, OperationTypeRestoreFootprint }

\* C4 (as claimed): a single-operation BumpFootprintExpiration or
\* RestoreFootprint envelope that is not of the Tx form, or whose extension
\* is absent (Ext.V # 1), gets the "SorobanTransactionData must be provided"
\* error; the footprint is read only when both are present.
C4_MissingResourceData ==
  \A p \in DOMAIN pc :
    (PastFootprint(p) /\ op[p] # Nil
       /\ op[p].Body.Type \in FootprintOperationTypes) =>
      LET env == txEnvelope[p]
          missing == \/ env.Type # EnvelopeTypeEnvelopeTypeTx
                     \/ env.V1.Tx.Ext.V # 1
      IN IF missing
           THEN /\ pc[p] = "returned"
                /\ response[p] = ErrorResponse(ErrMissingSorobanData)
           ELSE footprint[p] = env.V1.Tx.Ext.SorobanData.Resources.Footprint

\* The error text of an unsupported operation type.
UnsupportedOperationErrors ==
  { ErrUnsupportedPrefix \o OperationTypeString(t) : t \in OperationTypes }

\* The input errors of the handler.
InputErrors ==
  { ErrUnmarshal, ErrOperationCount, ErrMissingSorobanData } \cup
  UnsupportedOperationErrors

\* C5: a simulation that ends with an input error never called NewCachedTx:
\* no snapshot was opened, and neither the ledger reader nor GetPreflight
\* was invoked.
C5_InputErrorOpensNothing ==
  \A p \in DOMAIN pc :
    (response[p] # Nil /\ response[p].Error \in InputErrors) =>
      /\ calls[p] = <<>>
      /\ readTx[p] = Nil
      /\ \A t \in openTx : \E q \in DOMAIN pc : q # p /\ readTx[q] = t

\* C5 witness: a simulation that returned the unsupported-operation error.
C5_Witness ==
  \E p \in DOMAIN pc :
    /\ pc[p] = "returned"
    /\ response[p].Error \in UnsupportedOperationErrors
    /\ calls[p] = <<>>

\* C6: a decoded envelope whose operation count is not one gets the
\* operation-count error and no results, whatever later rule it also breaks.
C6_OperationCountFirst ==
  \A p \in DOMAIN pc :
    (pc[p] \notin {"idle", "unmarshal", "operations"} /\ txEnvelope[p] # Nil
       /\ Len(EnvelopeOperations(txEnvelope[p])) # 1) =>
      /\ pc[p] = "returned"
      /\ response[p].Error = "Transaction contains more than one operation"
      /\ response[p].Results = <<>>

\* C6 witness: a returned simulation of a two-operation TransactionV0
\* envelope whose first operation is a payment (it also breaks the
\* operation-type rule).
C6_Witness ==
  \E p \in DOMAIN pc :
    /\ pc[p] = "returned"
    /\ txEnvelope[p] # Nil
    /\ txEnvelope[p].Type = EnvelopeTypeEnvelopeTypeTxV0
    /\ Len(EnvelopeOperations(txEnvelope[p])) = 2
    /\ EnvelopeOperations(txEnvelope[p])[1].Body.Type = OperationTypePayment
    /\ response[p].Error = ErrOperationCount

SupportedOperationTypes ==
  { OperationTypeInvokeHostFunction, OperationTypeBumpFootprintExpiration,
    OperationTypeRestoreFootprint }

\* C7: a single operation of a type other than InvokeHostFunction,
\* BumpFootprintExpiration, RestoreFootprint gets the unsupported-operation
\* error naming its type; an operation of one of the three never gets it.
C7_UnsupportedOperation ==
  \A p \in DOMAIN pc :
    (PastFootprint(p) /\ op[p] # Nil) =>
      IF op[p].Body.Type \in SupportedOperationTypes
        THEN response[p] = Nil \/
             response[p].Error \notin UnsupportedOperationErrors
        ELSE /\ pc[p] = "returned"
             /\ response[p].Error =
                  "Transaction contains unsupported operation type: " \o
                  OperationTypeString(op[p].Body.Type)

\* C7 witness: a returned simulation of a single payment operation.
C7_Witness ==
  \E p \in DOMAIN pc :
    /\ pc[p] = "returned"
    /\ op[p] # Nil
    /\ op[p].Body.Type = OperationTypePayment
    /\ response[p].Error =
         "Transaction contains unsupported operation type: OperationTypePayment"

\* C8: when GetLedger returned a close meta of a version other than 2 for the
\* latest ledger L, the response is the error naming L and that version,
\* GetPreflight is not invoked and the snapshot is released on return; a
\* bucket-list size handed to GetPreflight comes from a version-2 record.
C8_CloseMetaVersion ==
  \A p \in DOMAIN pc :
    /\ \A i \in CallsOf(p, "GetLedger") :
         LET ret == calls[p][i].ret IN
           (ret.err = Nil /\ ret.ok /\ ret.closeMeta.V # 2) =>
             /\ pc[p] \in {"deferred", "returned"}
             /\ response[p].Error =
                  "latest ledger (" \o ToString(latestLedger[p]) \o
                  ") meta has unexpected verion (" \o
                  ToString(ret.closeMeta.V) \o ")"
             /\ calls[p][i].args.seq = latestLedger[p]
             /\ CallsOf(p, "GetPreflight") = {}
             /\ pc[p] = "returned" => readTx[p] \notin openTx
    /\ \A i \in CallsOf(p, "GetPreflight") :
         \E j \in CallsOf(p, "GetLedger") :
           /\ j < i
           /\ calls[p][j].ret.err = Nil
           /\ calls[p][j].ret.ok
           /\ calls[p][j].ret.closeMeta.V = 2
           /\ calls[p][i].args.bucketListSize =
                calls[p][j].ret.closeMeta.V2.TotalByteSizeOfBucketList

\* C8 witness: a returned simulation whose latest ledger 2 has a close meta
\* of version 1.
C8_Witness ==
  \E p \in DOMAIN pc :
    /\ pc[p] = "returned"
    /\ latestLedger[p] = 2
    /\ \E i \in CallsOf(p, "GetLedger") :
         /\ calls[p][i].ret.ok
         /\ calls[p][i].ret.closeMeta.V = 1
    /\ response[p].Error = "latest ledger (2) meta has unexpected verion (1)"

\* C9: when GetPreflight was invoked, the response's latestLedger is the
\* sequence GetLatestLedgerSequence returned on the read transaction passed
\* to GetPreflight, which is the sequence whose close meta was looked up.
C9_LatestLedgerReported ==
  \A p \in DOMAIN pc :
    \A i \in CallsOf(p, "GetPreflight") :
      \E j \in CallsOf(p, "GetLatestLedgerSequence") :
        \E k \in CallsOf(p, "GetLedger") :
          /\ j < k /\ k < i
          /\ calls[p][j].tx = calls[p][i].tx
          /\ calls[p][j].ret.err = Nil
          /\ response[p].LatestLedger = calls[p][j].ret.seq
          /\ calls[p][k].args.seq = calls[p][j].ret.seq

\* C9 witness: a returned simulation whose preflight failed, pinned to
\* ledger 1 while the store has moved on to ledger 2.
C9_Witness ==
  \E p \in DOMAIN pc :
    /\ pc[p] = "returned"
    /\ CallsOf(p, "GetPreflight") # {}
    /\ result[p].err # Nil
    /\ response[p].LatestLedger = 1
    /\ dbLatest = 2

\* C10 (as claimed): the response to a preflight that failed after producing
\* diagnostic events carries those events.
C10_EventsOnFailure ==
  \A p \in DOMAIN pc :
    (pc[p] = "returned" /\ result[p] # Nil /\ result[p].err # Nil) =>
      response[p].Events = result[p].result.Events

\* The error a close-meta lookup that returned ret for ledger l stands for,
\* Nil when the lookup yielded a usable version-2 record.
CloseMetaError(ret, l) ==
  IF ret.err # Nil THEN Error(ret.err)
  ELSE IF ~ret.ok
    THEN "missing meta for latest ledger (" \o ToString(l) \o ")"
  ELSE IF ret.closeMeta.V # 2
    THEN "latest ledger (" \o ToString(l) \o
         ") meta has unexpected verion (" \o ToString(ret.closeMeta.V) \o ")"
  ELSE ""

\* C11 (as claimed): when the close-meta lookup for the known latest ledger L
\* fails, finds nothing, or finds an unexpected version, the failure
\* response reports that error verbatim and carries latestLedger = L.
C11_SnapshotErrorCarriesLedger ==
  \A p \in DOMAIN pc :
    \A i \in CallsOf(p, "GetLedger") :
      CloseMetaError(calls[p][i].ret, latestLedger[p]) # "" =>
        /\ response[p].Error = CloseMetaError(calls[p][i].ret, latestLedger[p])
        /\ latestLedger[p] > 0
        /\ response[p].LatestLedger = latestLedger[p]

\* C14: a successful response carries the trace GetPreflight returned,
\* unchanged and in order: cost.cpuInsns and cost.memBytes, the result xdr,
\* the auth list, the events, transactionData and minResourceFee.
C14_ResponseCarriesTrace ==
  \A p \in DOMAIN pc :
    \A i \in CallsOf(p, "GetPreflight") :
      LET trace == calls[p][i].ret.result IN
        calls[p][i].ret.err = Nil =>
          /\ response[p].Error = ""
          /\ response[p].Cost.CPUInstructions = trace.CPUInstructions
          /\ response[p].Cost.MemoryBytes = trace.MemoryBytes
          /\ Len(response[p].Results) = 1
          /\ response[p].Results[1].XDR = trace.Result
          /\ response[p].Results[1].Auth = trace.Auth
          /\ response[p].Events = trace.Events
          /\ response[p].TransactionData = trace.TransactionData
          /\ response[p].MinResourceFee = trace.MinFee

\* C14 witness: a returned success whose trace has two events and two
\* authorization entries.
C14_Witness ==
  \E p \in DOMAIN pc :
    /\ pc[p] = "returned"
    /\ response[p].Error = ""
    /\ response[p].Events = <<"event-1", "event-2">>
    /\ response[p].Results[1].Auth = <<"auth-1", "auth-2">>
    /\ response[p].Cost.CPUInstructions = 9000

\* C16: GetPreflight gets the empty footprint for an InvokeHostFunction
\* envelope, whatever resource data the envelope declares, and the declared
\* footprint, unchanged, for a BumpFootprintExpiration or RestoreFootprint
\* envelope.
C16_FootprintHandedOn ==
  \A p \in DOMAIN pc :
    \A i \in CallsOf(p, "GetPreflight") :
      LET env == txEnvelope[p]
          handed == calls[p][i].args.footprint
      IN IF op[p].Body.Type = OperationTypeInvokeHostFunction
           THEN handed = [ReadOnly |-> <<>>, ReadWrite |-> <<>>]
           ELSE /\ op[p].Body.Type \in FootprintOperationTypes
                /\ env.Type = EnvelopeTypeEnvelopeTypeTx
                /\ env.V1.Tx.Ext.V = 1
                /\ handed = env.V1.Tx.Ext.SorobanData.Resources.Footprint

\* C16 witness: the preflight of an InvokeHostFunction envelope that
\* declares a non-empty footprint.
C16_Witness ==
  \E p \in DOMAIN pc :
    /\ CallsOf(p, "GetPreflight") # {}
    /\ op[p].Body.Type = OperationTypeInvokeHostFunction
    /\ txEnvelope[p].Type = EnvelopeTypeEnvelopeTypeTx
    /\ txEnvelope[p].V1.Tx.Ext.V = 1
    /\ txEnvelope[p].V1.Tx.Ext.SorobanData.Resources.Footprint.ReadWrite
         = <<"keyB">>

\* A collaborator call that did not deliver what the next step needs.
FailedCall(c, l) ==
  IF c.call = "GetLedger" THEN CloseMetaError(c.ret, l) # ""
  ELSE IF c.call \in {"NewCachedTx", "GetLatestLedgerSequence"}
    THEN c.ret.err # Nil
  ELSE FALSE

\* C17: GetPreflight is invoked at most once per simulation, and only after
\* validation, NewCachedTx, GetLatestLedgerSequence and GetLedger(L) with a
\* present version-2 close meta succeeded in this order; a failure of an
\* earlier step ends the simulation with an error and without the VM.
C17_PreflightLastAndOnce ==
  \A p \in DOMAIN pc :
    /\ Cardinality(CallsOf(p, "GetPreflight")) <= 1
    /\ \A i \in CallsOf(p, "GetPreflight") :
         /\ i = 4
         /\ txEnvelope[p] # Nil /\ op[p] # Nil /\ footprint[p] # Nil
         /\ op[p].Body.Type \in SupportedOperationTypes
         /\ calls[p][1].call = "NewCachedTx"
         /\ calls[p][2].call = "GetLatestLedgerSequence"
         /\ calls[p][3].call = "GetLedger"
         /\ \A j \in 1..3 : ~FailedCall(calls[p][j], latestLedger[p])
         /\ calls[p][3].args.seq = calls[p][2].ret.seq
         /\ calls[p][3].ret.closeMeta.V = 2
    /\ \A j \in DOMAIN calls[p] :
         FailedCall(calls[p][j], latestLedger[p]) =>
           /\ CallsOf(p, "GetPreflight") = {}
           /\ response[p] # Nil
           /\ response[p].Error # ""
    /\ (Finished(p) /\ (txEnvelope[p] = Nil \/ op[p] = Nil
                        \/ footprint[p] = Nil)) =>
         CallsOf(p, "GetPreflight") = {}

\* C17 witness: a simulation that reached GetPreflight as its fourth call.
C17_Witness ==
  \E p \in DOMAIN pc :
    /\ Len(calls[p]) >= 4
    /\ calls[p][4].call = "GetPreflight"
    /\ calls[p][3].ret.closeMeta.V = 2

\* The simulation opened a read transaction.
Opened(p) ==
  \E i \in CallsOf(p, "NewCachedTx") : calls[p][i].ret.err = Nil

\* C19: Done is called exactly once on a read transaction that was opened,
\* never when NewCachedTx failed, and it is the last thing done with the read
\* transaction: after GetPreflight returned or the simulation failed.
C19_DoneOnceAndLast ==
  \A p \in DOMAIN pc :
    LET dones == CallsOf(p, "Done") IN
      /\ Cardinality(dones) <= 1
      /\ ~Opened(p) => dones = {}
      /\ (pc[p] = "returned" /\ Opened(p)) => Cardinality(dones) = 1
      /\ \A d \in dones :
           /\ d = Len(calls[p])
           /\ readTx[p] # Nil
           /\ calls[p][d].tx = readTx[p]
           /\ response[p] # Nil
           /\ CallsOf(p, "GetPreflight") # {} \/ response[p].Error # ""

\* C19 witness: a returned simulation whose close-meta lookup failed and
\* whose read transaction was released by its fourth and last call.
C19_Witness ==
  \E p \in DOMAIN pc :
    /\ pc[p] = "returned"
    /\ Opened(p)
    /\ Len(calls[p]) = 4
    /\ calls[p][3].call = "GetLedger"
    /\ calls[p][4].call = "Done"

\* C12: over simulations served one after another, the
\* latestLedger of each response, successful or failed, is at least that of
\* every earlier response.
C12_LatestLedgerMonotonic ==
  \A p \in DOMAIN pc :
    pc[p] = "returned" => response[p].LatestLedger >= maxReported

\* The context of simulation p was cancelled after its snapshot was opened
\* and before its preflight returned.
CancelledAfterOpen(p) ==
  /\ ctxDone[p]
  /\ \E i \in CallsOf(p, "NewCachedTx") :
       calls[p][i].ret.err = Nil /\ ~calls[p][i].args.ctxDone

\* C15: once the context is cancelled after the snapshot was
\* opened, no further collaborator is invoked, the snapshot is released and
\* the response is the cancellation error.
C15_CancelAborts ==
  \A p \in DOMAIN pc :
    /\ \A i \in CallsOf(p, "GetLedger") \cup CallsOf(p, "GetPreflight") :
         ~calls[p][i].args.ctxDone
    /\ (pc[p] = "returned" /\ CancelledAfterOpen(p)) =>
         /\ readTx[p] \notin openTx
         /\ response[p].Error = "context canceled"

\* The simulation holds a read transaction it has not released yet.
Holding(p) ==
  pc[p] \in {"latestLedger", "bucketListSize", "preflight", "deferred"}

\* C18: with simulations running concurrently, the open read transactions
\* are exactly those of the simulations in progress, one each and all
\* different; every call a simulation makes on a read transaction
\* (GetLatestLedgerSequence, GetPreflight, Done) is made on the one it opened
\* itself; and once every simulation has finished none is open.
C18_OwnSnapshotOnly ==
  /\ openTx = { readTx[p] : p \in {q \in DOMAIN pc : Holding(q)} }
  /\ \A p, q \in DOMAIN pc :
       (p # q /\ Holding(p) /\ Holding(q)) => readTx[p] # readTx[q]
  /\ \A p \in DOMAIN pc :
       /\ Holding(p) => readTx[p] # Nil
       /\ \A i \in DOMAIN calls[p] :
            calls[p][i].tx # Nil =>
              /\ Opened(p)
              /\ calls[p][i].tx = readTx[p]
  /\ (\A p \in DOMAIN pc : Finished(p)) => openTx = {}

\* C18 witness: one simulation has returned after releasing its read
\* transaction while the other, opened concurrently, still holds its own.
C18_Witness ==
  \E p, q \in DOMAIN pc :
    /\ pc[p] = "returned"
    /\ CallsOf(p, "Done") # {}
    /\ pc[q] = "preflight"
    /\ readTx[p].id # readTx[q].id
    /\ openTx = {readTx[q]}

\* The collaborators returned the same values to both simulations, call by
\* call, as far as both got.
SameReturns(p, q) ==
  \A i \in DOMAIN calls[p] \cap DOMAIN calls[q] :
    calls[p][i].ret = calls[q][i].ret

\* C13: two simulations of the same request to which the collaborators
\* returned the same values (same latest sequence, same close meta, same
\* preflight outcome) make the same calls and return responses equal in
\* every field.
C13_SameInputsSameResponse ==
  \A p, q \in DOMAIN pc :
    (/\ pc[p] = "returned"
     /\ pc[q] = "returned"
     /\ request[p] = request[q]
     /\ SameReturns(p, q)) =>
      /\ response[p] = response[q]
      /\ Len(calls[p]) = Len(calls[q])
      /\ \A i \in DOMAIN calls[p] : calls[p][i].call = calls[q][i].call

\* C13 witness: two simulations of the same envelope that held different
\* read transactions at the same time, on a store that stayed at ledger 1,
\* both returned the same successful response.
C13_Witness ==
  \E p, q \in DOMAIN pc :
    /\ p # q
    /\ pc[p] = "returned"
    /\ pc[q] = "returned"
    /\ request[p] = request[q]
    /\ readTx[p] # Nil
    /\ readTx[q] # Nil
    /\ readTx[p].id # readTx[q].id
    /\ response[p].Error = ""
    /\ response[p] = response[q]
    /\ response[p].LatestLedger = 1
    /\ dbLatest = 1

====
